---- MODULE Spec2Model ----
(***************************************************************************)
(* Multi-owner tagging (django-tagging-multiuser): the Tag / TaggedItem    *)
(* tables, the write path TagManager.update_tags / add_tag, the derived    *)
(* popular flag (TaggedItem.refresh_popular) and the read path             *)
(* TaggedItemManager.match_any / match_all.                                *)
(*                                                                         *)
(* Text is a sequence of one-character strings; a tag name is such a       *)
(* sequence.  parse_tag_input, split_strip and unique_from_iter            *)
(* (tagging/utils.py) and FORCE_LOWERCASE_TAGS (tagging/settings.py)       *)
(* follow their documented behaviour and the doctests of tests/tests.py.   *)
(***************************************************************************)
EXTENDS Integers, Sequences, FiniteSets, TLC

\* ------------------------------------------------------------------------
\* Text helpers
\* ------------------------------------------------------------------------

\* Code point of a character of the alphabet used by the inputs.
Ord(c) ==
    CASE c = " "  -> 32
      [] c = "\"" -> 34
      [] c = ","  -> 44
      [] c = "A"  -> 65
      [] c = "B"  -> 66
      [] c = "a"  -> 97
      [] c = "b"  -> 98
      [] OTHER    -> 0

\* unicode.lower() on one character.
LowerChar(c) ==
    CASE c = "A" -> "a"
      [] c = "B" -> "b"
      [] OTHER   -> c

\* t.lower()
Lower(t) == [k \in 1..Len(t) |-> LowerChar(t[k])]

Range(s) == {s[k] : k \in 1..Len(s)}

RECURSIVE LexLess(_, _)
\* Python's ordering of two unicode strings.
LexLess(x, y) ==
    IF Len(x) = 0 THEN Len(y) > 0
    ELSE IF Len(y) = 0 THEN FALSE
    ELSE IF x[1] = y[1] THEN LexLess(Tail(x), Tail(y))
    ELSE Ord(x[1]) < Ord(y[1])

RECURSIVE SortedSeq(_)
\* words = list(set(words)); words.sort()
SortedSeq(S) ==
    IF S = {} THEN <<>>
    ELSE LET m == CHOOSE x \in S : \A y \in S \ {x} : LexLess(x, y)
         IN  <<m>> \o SortedSeq(S \ {m})

RECURSIVE LStrip(_)
LStrip(w) == IF Len(w) > 0 /\ w[1] = " " THEN LStrip(Tail(w)) ELSE w

RECURSIVE RStrip(_)
RStrip(w) ==
    IF Len(w) > 0 /\ w[Len(w)] = " " THEN RStrip(SubSeq(w, 1, Len(w) - 1)) ELSE w

\* w.strip()
Strip(w) == RStrip(LStrip(w))

RECURSIVE SplitFrom(_, _, _, _, _)
SplitFrom(s, d, k, cur, acc) ==
    IF k > Len(s) THEN Append(acc, cur)
    ELSE IF s[k] = d THEN SplitFrom(s, d, k + 1, <<>>, Append(acc, cur))
    ELSE SplitFrom(s, d, k + 1, Append(cur, s[k]), acc)

\* input.split(delimiter): every segment, the empty ones included.
Split(s, d) == SplitFrom(s, d, 1, <<>>, <<>>)

\* Splits on the delimiter, strips each segment and drops the empty ones.
split_strip(input, delimiter) ==
    IF Len(input) = 0 THEN <<>>
    ELSE LET words == Split(input, delimiter)
             stripped == [k \in 1..Len(words) |-> Strip(words[k])]
         IN  SelectSeq(stripped, LAMBDA w : Len(w) > 0)

RECURSIVE ExtendSplit(_, _, _)
\* for chunk in to_be_split: words.extend(split_strip(chunk, delimiter))
ExtendSplit(words, chunks, delimiter) ==
    IF Len(chunks) = 0 THEN words
    ELSE ExtendSplit(words \o split_strip(Head(chunks), delimiter),
                     Tail(chunks), delimiter)

\* State of the quote-aware scan of parse_tag_input.
ScanInit ==
    [words |-> <<>>, buffer |-> <<>>, to_be_split |-> <<>>,
     saw_loose_comma |-> FALSE]

RECURSIVE ScanOutside(_, _, _)
RECURSIVE ScanQuoted(_, _, _)

\* The scan outside a quoted section; k is the next character to read.
ScanOutside(s, k, st) ==
    IF k > Len(s)
    THEN \* end of input outside quotes: the buffer is left to be split
         IF Len(st.buffer) > 0
         THEN [st EXCEPT !.to_be_split = Append(@, st.buffer), !.buffer = <<>>]
         ELSE st
    ELSE IF s[k] = "\""
    THEN ScanQuoted(s, k + 1,
             IF Len(st.buffer) > 0
             THEN [st EXCEPT !.to_be_split = Append(@, st.buffer), !.buffer = <<>>]
             ELSE st)
    ELSE ScanOutside(s, k + 1,
             [st EXCEPT !.buffer = Append(@, s[k]),
                        !.saw_loose_comma = @ \/ s[k] = ","])

\* The scan inside an open quote, looking for the matching quote.
ScanQuoted(s, k, st) ==
    IF k > Len(s)
    THEN \* the quote was never closed: the buffer is treated as unquoted
         IF Len(st.buffer) > 0
         THEN [st EXCEPT !.to_be_split = Append(@, st.buffer), !.buffer = <<>>,
                         !.saw_loose_comma = @ \/ "," \in Range(st.buffer)]
         ELSE st
    ELSE IF s[k] = "\""
    THEN LET word == Strip(st.buffer)
         IN  ScanOutside(s, k + 1,
                 [st EXCEPT !.words = IF Len(word) > 0 THEN Append(@, word) ELSE @,
                            !.buffer = <<>>])
    ELSE ScanQuoted(s, k + 1, [st EXCEPT !.buffer = Append(@, s[k])])

\* An absent value (None) of a text argument.
None == [none |-> TRUE, text |-> <<>>]

\* A text argument holding the characters s.
Text(s) == [none |-> FALSE, text |-> s]

\* The names in the order they are met, neither sorted nor made distinct.
parse_tag_input_unsorted(input) ==
    IF input.none \/ Len(input.text) = 0 THEN <<>>
    ELSE LET s == input.text IN
         IF "," \notin Range(s) /\ "\"" \notin Range(s)
         THEN split_strip(s, " ")
         ELSE LET st == ScanOutside(s, 1, ScanInit)
                  delimiter == IF st.saw_loose_comma THEN "," ELSE " "
              IN  ExtendSplit(st.words, st.to_be_split, delimiter)

\* Parses tag input: space-delimited, comma-delimited and double-quoted
\* names; the result is sorted and holds no name twice.
parse_tag_input(input) ==
    IF input.none \/ Len(input.text) = 0 THEN <<>>
    ELSE LET s == input.text IN
         IF "," \notin Range(s) /\ "\"" \notin Range(s)
         THEN SortedSeq(Range(split_strip(s, " ")))
         ELSE LET st == ScanOutside(s, 1, ScanInit)
                  delimiter == IF st.saw_loose_comma THEN "," ELSE " "
                  words == ExtendSplit(st.words, st.to_be_split, delimiter)
              IN  SortedSeq(Range(words))

\* ------------------------------------------------------------------------
\* The universe of the model
\* ------------------------------------------------------------------------

\* Most calls of update_tags / add_tag in one behaviour.
MaxCalls == 3

\* Primary keys of the owner model (users).
Owners == {"u1", "u2"}

\* Content types of the tagged models (tests/models.py: Parrot, Link).
ContentTypes == {"parrot", "link"}

\* The tagged records: two parrots and a link sharing a primary key with one.
Objects ==
    {[content_type |-> "parrot", pk |-> 1],
     [content_type |-> "parrot", pk |-> 2],
     [content_type |-> "link", pk |-> 1]}

\* The tag input handed to update_tags: None, two names split on a comma
\* (given out of order), two names that lower-casing makes one.
UpdateInputs ==
    {None,
     Text(<<"b", ",", "a">>),
     Text(<<"A", " ", "a">>)}

\* The tag input handed to add_tag: blanks only, one upper-case name, two
\* names split on a space.
AddInputs ==
    {Text(<<" ", " ">>),
     Text(<<"A">>),
     Text(<<"b", " ", "a">>)}

\* MIN_OWNERS_COUNT_PER_TAG when tagging.settings does not define it.
MIN_OWNERS_COUNT_PER_TAG == 0

VARIABLES
    Tag,                    \* rows of Tag: [pk, name, owners]
    TaggedItem,             \* rows of TaggedItem:
                            \*   [pk, tag, content_type, object_id, owners, popular]
    FORCE_LOWERCASE_TAGS,   \* settings.FORCE_LOWERCASE_TAGS
    last,                   \* the call that completed last and its outcome
    calls,                  \* number of calls made
    parse_input,            \* the argument of a call of parse_tag_input
    parse_result,           \* whether that call returned, and what
    run,                    \* per owner, the call in progress: the statement
                            \*   it is at and its local variables
    orphans                 \* rows <<association pk, owner>> of the owners
                            \*   relation whose association row is not stored

vars == <<Tag, TaggedItem, FORCE_LOWERCASE_TAGS, last, calls,
          parse_input, parse_result, run, orphans>>

\* The variables of the calls run statement by statement.
process_vars == <<run, orphans>>

\* The variables of the calls of parse_tag_input on its own.
parser_vars == <<parse_input, parse_result>>

\* ------------------------------------------------------------------------
\* Database helpers
\* ------------------------------------------------------------------------

RECURSIVE MaxOf(_)
MaxOf(S) ==
    IF S = {} THEN 0
    ELSE LET x == CHOOSE y \in S : TRUE
             m == MaxOf(S \ {x})
         IN  IF x > m THEN x ELSE m

\* The primary key the database gives to a new row.
NextPk(rows) == MaxOf({r.pk : r \in rows}) + 1

RECURSIVE CountOwners(_)
\* queryset.aggregate(Count('owners')): rows of the join with the owners.
CountOwners(rows) ==
    IF rows = {} THEN 0
    ELSE LET r == CHOOSE x \in rows : TRUE
         IN  Cardinality(r.owners) + CountOwners(rows \ {r})

\* Every order in which the database can return the rows of an unordered
\* queryset (TaggedItem declares no ordering).
Orderings(rows) ==
    {f \in [1..Cardinality(rows) -> rows] :
        \A j, k \in 1..Cardinality(rows) : j # k => f[j] # f[k]}

\* ------------------------------------------------------------------------
\* TaggedItem: save, refresh_popular
\* ------------------------------------------------------------------------

\* Recomputes the popular flag of every association of one object.
refresh_popular(db, content_type, object_id) ==
    LET queryset == {i \in db.items : i.content_type = content_type
                                      /\ i.object_id = object_id}
        tag_count == Cardinality(queryset)
        total_owners_count == CountOwners(queryset)
    IN  IF db.error # "none" THEN db
        ELSE IF tag_count = 0 THEN [db EXCEPT !.error = "ZeroDivisionError"]
        ELSE LET quotient == total_owners_count \div tag_count
                 avg == IF quotient < MIN_OWNERS_COUNT_PER_TAG
                        THEN MIN_OWNERS_COUNT_PER_TAG ELSE quotient
                 popular_ids == {i.pk : i \in {j \in queryset :
                                                 Cardinality(j.owners) > avg}}
             IN  [db EXCEPT !.items =
                     {IF i \in queryset
                      THEN [i EXCEPT !.popular = (i.pk \in popular_ids)]
                      ELSE i : i \in db.items}]

\* TaggedItem.save: writes the instance's columns (the owners live in their
\* own relation and are not written), then refreshes the popular flags.
TaggedItem_save(db, item) ==
    LET stored == {i \in db.items : i.pk = item.pk}
        owners == UNION {i.owners : i \in stored}
        written == [db EXCEPT !.items =
                       (@ \ stored) \cup {[item EXCEPT !.owners = owners]}]
    IN  IF db.error # "none" THEN db
        ELSE refresh_popular(written, item.content_type, item.object_id)

\* item.owners.add(owner)
item_owners_add(db, pk, owner) ==
    [db EXCEPT !.items =
        {IF i.pk = pk THEN [i EXCEPT !.owners = @ \cup {owner}] ELSE i : i \in @}]

\* item.owners.remove(owner)
item_owners_remove(db, pk, owner) ==
    [db EXCEPT !.items =
        {IF i.pk = pk THEN [i EXCEPT !.owners = @ \ {owner}] ELSE i : i \in @}]

\* item.delete()
item_delete(db, pk) == [db EXCEPT !.items = {i \in @ : i.pk # pk}]

\* A create in place of get_or_create: a new row whether or not one is
\* stored for the tag and the object.
item_always_create(db, tag_pk, content_type, object_id) ==
    LET new == [pk |-> NextPk(db.items), tag |-> tag_pk,
                content_type |-> content_type, object_id |-> object_id,
                owners |-> {}, popular |-> FALSE]
    IN  [db |-> TaggedItem_save(db, new), item |-> new]

\* TaggedItem._default_manager.get_or_create(tag=, content_type=, object_id=):
\* the stored row, or a new one saved with no owner and popular False.
item_get_or_create(db, tag_pk, content_type, object_id) ==
    LET found == {i \in db.items : i.tag = tag_pk /\ i.content_type = content_type
                                   /\ i.object_id = object_id}
        new == [pk |-> NextPk(db.items), tag |-> tag_pk,
                content_type |-> content_type, object_id |-> object_id,
                owners |-> {}, popular |-> FALSE]
    IN  IF Cardinality(found) > 1
        THEN [db |-> [db EXCEPT !.error = "MultipleObjectsReturned"], item |-> new]
        ELSE IF found # {}
        THEN [db |-> db, item |-> CHOOSE i \in found : TRUE]
        ELSE [db |-> TaggedItem_save(db, new), item |-> new]

\* ------------------------------------------------------------------------
\* Tag: get_or_create, owners
\* ------------------------------------------------------------------------

\* self.get_or_create(name=tag_name)
tag_get_or_create(db, name) ==
    LET found == {t \in db.tags : t.name = name}
        new == [pk |-> NextPk(db.tags), name |-> name, owners |-> {}]
    IN  IF found # {}
        THEN [db |-> db, tag |-> CHOOSE t \in found : TRUE]
        ELSE [db |-> [db EXCEPT !.tags = @ \cup {new}], tag |-> new]

\* tag.owners.add(owner); tag.save()
tag_owners_add(db, pk, owner) ==
    [db EXCEPT !.tags =
        {IF t.pk = pk THEN [t EXCEPT !.owners = @ \cup {owner}] ELSE t : t \in @}]

\* tag.owners.remove(owner); tag.save()
tag_owners_remove(db, pk, owner) ==
    [db EXCEPT !.tags =
        {IF t.pk = pk THEN [t EXCEPT !.owners = @ \ {owner}] ELSE t : t \in @}]

\* The body shared by update_tags (one pass of its loop) and add_tag: the
\* tag is got or created, the owner added to it, the association got or
\* created, the owner added to it, and the association saved.
apply_tag(db, obj, tag_name, owner) ==
    LET tc == tag_get_or_create(db, tag_name)
        db1 == IF owner \notin tc.tag.owners
               THEN tag_owners_add(tc.db, tc.tag.pk, owner) ELSE tc.db
        ic == item_get_or_create(db1, tc.tag.pk, obj.content_type, obj.pk)
    IN  IF ic.db.error # "none" THEN ic.db
        ELSE TaggedItem_save(item_owners_add(ic.db, ic.item.pk, owner), ic.item)

\* ------------------------------------------------------------------------
\* TagManager.update_tags, TagManager.add_tag
\* ------------------------------------------------------------------------

\* The stored tables as one value threaded through the statements of a call;
\* error is the exception raised, "none" while none was.
DB == [tags |-> Tag, items |-> TaggedItem, error |-> "none"]

\* updated_tag_names: the parsed names, lower-cased when the setting is on.
updated_names(tag_names) ==
    LET parsed == parse_tag_input(tag_names)
    IN  IF FORCE_LOWERCASE_TAGS
        THEN [k \in 1..Len(parsed) |-> Lower(parsed[k])]
        ELSE parsed

\* The current tags taken over every owner: the tags on the object,
\* whoever applied them.
current_tags_any_owner(db, obj, owner) ==
    {t \in db.tags :
        \E i \in db.items : /\ i.tag = t.pk
                            /\ i.content_type = obj.content_type
                            /\ i.object_id = obj.pk}

\* current_tags: the tags the owner has on the object.
current_tags(db, obj, owner) ==
    {t \in db.tags :
        \E i \in db.items : /\ i.tag = t.pk
                            /\ i.content_type = obj.content_type
                            /\ owner \in i.owners
                            /\ i.object_id = obj.pk}

\* tags_for_removal: the current tags the updated names do not hold.
tags_for_removal(db, obj, tag_names, owner) ==
    {t \in current_tags(db, obj, owner) : t.name \notin Range(updated_names(tag_names))}

\* items: the associations of the tags for removal with the object.
items_for_removal(db, obj, tag_names, owner) ==
    {i \in db.items :
        /\ i.content_type = obj.content_type
        /\ i.object_id = obj.pk
        /\ i.tag \in {t.pk : t \in tags_for_removal(db, obj, tag_names, owner)}}

\* The condition under which update_tags takes the owner off a tag for
\* removal: the owner has at most one association, of the object's content
\* type, whose object_id equals the primary key of the tag.
owner_leaves_tag(db, ctype, tag, owner) ==
    Cardinality({i \in db.items : /\ owner \in i.owners
                                  /\ i.content_type = ctype
                                  /\ i.object_id = tag.pk}) <= 1

\* for tag in tags_for_removal: ... tag.owners.remove(owner); tag.save()
remove_tag_owners(db, ctype, removal, owner) ==
    [db EXCEPT !.tags =
        {IF t \in removal /\ owner_leaves_tag(db, ctype, t, owner)
         THEN [t EXCEPT !.owners = @ \ {owner}]
         ELSE t : t \in @}]

\* The association deleted whether or not owners remain.
remove_item_always_delete(db, item, owner) ==
    item_delete(item_owners_remove(db, item.pk, owner), item.pk)

\* One pass of "for item in items": the owner is taken off the association,
\* which is saved when owners remain and deleted otherwise.
remove_item(db, item, owner) ==
    LET db1 == item_owners_remove(db, item.pk, owner)
        remaining == UNION {i.owners : i \in {j \in db1.items : j.pk = item.pk}}
    IN  IF Cardinality(remaining) > 0
        THEN TaggedItem_save(db1, item)
        ELSE item_delete(db1, item.pk)

RECURSIVE remove_items(_, _, _)
\* for item in items, in the order the database returned them
remove_items(db, order, owner) ==
    IF Len(order) = 0 \/ db.error # "none" THEN db
    ELSE remove_items(remove_item(db, Head(order), owner), Tail(order), owner)

RECURSIVE add_new_tags(_, _, _, _, _)
\* for tag_name in updated_tag_names: if tag_name not in current_tag_names
add_new_tags(db, names, current_tag_names, obj, owner) ==
    IF Len(names) = 0 \/ db.error # "none" THEN db
    ELSE add_new_tags(
             IF Head(names) \notin current_tag_names
             THEN apply_tag(db, obj, Head(names), owner) ELSE db,
             Tail(names), current_tag_names, obj, owner)

\* Update tags associated with an object; order is the order in which the
\* database returns the associations to remove.
update_tags(db, obj, tag_names, owner, order) ==
    LET current == current_tags(db, obj, owner)
        removal == tags_for_removal(db, obj, tag_names, owner)
        db1 == IF Cardinality(removal) # 0
               THEN remove_items(
                        remove_tag_owners(db, obj.content_type, removal, owner),
                        order, owner)
               ELSE db
    IN  add_new_tags(db1, updated_names(tag_names),
                     {t.name : t \in current}, obj, owner)

\* add_tag without the check for several names: the first name is applied.
add_tag_first_name(db, obj, tag_name, owner) ==
    LET tag_names == parse_tag_input(tag_name)
    IN  IF Len(tag_names) = 0
        THEN [db EXCEPT !.error = "No tags were given"]
        ELSE apply_tag(db, obj,
                 IF FORCE_LOWERCASE_TAGS THEN Lower(tag_names[1]) ELSE tag_names[1],
                 owner)

\* Associates the given object with a tag.
add_tag(db, obj, tag_name, owner) ==
    LET tag_names == parse_tag_input(tag_name)
    IN  IF Len(tag_names) = 0
        THEN [db EXCEPT !.error = "No tags were given"]
        ELSE IF Len(tag_names) > 1
        THEN [db EXCEPT !.error = "Multiple tags were given"]
        ELSE apply_tag(db, obj,
                 IF FORCE_LOWERCASE_TAGS THEN Lower(tag_names[1]) ELSE tag_names[1],
                 owner)

\* ------------------------------------------------------------------------
\* TagManager queries
\* ------------------------------------------------------------------------

\* Tag.objects.get_for_object(obj): the tags with an association on obj.
get_for_object(obj) ==
    {t \in Tag : \E i \in TaggedItem : /\ i.tag = t.pk
                                       /\ i.content_type = obj.content_type
                                       /\ i.object_id = obj.pk}

\* Tag.objects.get_for_object_owner(obj, owner): the tags with an
\* association on obj that has owner among its owners.
get_for_object_owner(obj, owner) ==
    {t \in Tag : \E i \in TaggedItem : /\ i.tag = t.pk
                                       /\ i.content_type = obj.content_type
                                       /\ i.object_id = obj.pk
                                       /\ owner \in i.owners}

\* ------------------------------------------------------------------------
\* TaggedItemManager.match_any, match_all
\* ------------------------------------------------------------------------

\* The values handed in as user_filter_function: none, the doctests'
\* lambda i: i.popular == True, and a value that is not callable.
Predicates == {"absent", "popular", "not_callable"}

\* callable(user_filter_function)
Callable(predicate) == predicate # "not_callable"

\* user_filter_function(item) for a callable predicate
CallPredicate(predicate, item) ==
    IF predicate = "popular" THEN item.popular ELSE TRUE

\* The filter_function match_any and match_all build: default_filter when no
\* predicate is given, otherwise a lambda wrapped around the predicate.
filter_function(ctype, user_filter_function) ==
    IF user_filter_function # "absent"
    THEN [kind |-> "lambda", user |-> user_filter_function, ctype |-> ctype]
    ELSE [kind |-> "default_filter", user |-> "absent", ctype |-> ctype]

\* callable(filter_function) for the values filter_function builds: both
\* are lambdas.
CallableFilter(f) == f.kind \in {"lambda", "default_filter"}

\* A filter that does not compare the content type.
CallFilter_any_type(f, item) ==
    IF f.kind = "default_filter" THEN "true"
    ELSE IF ~Callable(f.user) THEN "raise"
    ELSE IF CallPredicate(f.user, item) THEN "true" ELSE "false"

\* filter_function(item): "raise" when the call raises TypeError, which is
\* when the wrapping lambda calls a predicate that is not callable.
CallFilter(f, item) ==
    IF f.kind = "default_filter" THEN
        IF item.content_type = f.ctype THEN "true" ELSE "false"
    ELSE IF ~Callable(f.user) THEN "raise"
    ELSE IF CallPredicate(f.user, item) /\ item.content_type = f.ctype
         THEN "true" ELSE "false"

RECURSIVE RowsByPk(_)
\* The rows in ascending order of primary key.
RowsByPk(rows) ==
    IF rows = {} THEN <<>>
    ELSE LET r == CHOOSE x \in rows : \A y \in rows : x.pk <= y.pk
         IN  <<r>> \o RowsByPk(rows \ {r})

RECURSIVE TagsByName(_)
\* Tag.Meta.ordering = ('name',)
TagsByName(tags) ==
    IF tags = {} THEN <<>>
    ELSE LET t == CHOOSE x \in tags :
                     \A y \in tags \ {x} : LexLess(x.name, y.name) \/ x.name = y.name
         IN  <<t>> \o TagsByName(tags \ {t})

RECURSIVE matching_ids_of_items(_, _, _)
\* for item in tag.items.all(): if item.object_id and filter_function(item)
matching_ids_of_items(items, f, acc) ==
    IF Len(items) = 0 \/ acc.error # "none" THEN acc
    ELSE LET item == Head(items)
             verdict == IF item.object_id # 0 THEN CallFilter(f, item) ELSE "false"
         IN  matching_ids_of_items(Tail(items), f,
                 IF verdict = "raise" THEN [acc EXCEPT !.error = "TypeError"]
                 ELSE IF verdict = "true"
                 THEN [acc EXCEPT !.ids = Append(@, item.object_id)]
                 ELSE acc)

RECURSIVE matching_ids_of_tags(_, _, _)
\* for tag in tags.select_related(depth=1)
matching_ids_of_tags(tags, f, acc) ==
    IF Len(tags) = 0 \/ acc.error # "none" THEN acc
    ELSE matching_ids_of_tags(Tail(tags), f,
             matching_ids_of_items(
                 RowsByPk({i \in TaggedItem : i.tag = Head(tags).pk}), f, acc))

\* The object ids the generator yields, one per association of a tag of
\* tags that passes the filter; error is the exception it raises.  The
\* order of the associations of a tag is the database's; the callers only
\* count and dedupe the ids.
_get_matching_ids(model, tags, f) ==
    IF ~CallableFilter(f) THEN [error |-> "AssertionError", ids |-> <<>>]
    ELSE matching_ids_of_tags(TagsByName(tags), f, [error |-> "none", ids |-> <<>>])

RECURSIVE unique_from_iter(_)
\* The items of a sequence, each once, in the order first met.
unique_from_iter(ids) ==
    IF Len(ids) = 0 THEN <<>>
    ELSE LET front == unique_from_iter(SubSeq(ids, 1, Len(ids) - 1))
             x == ids[Len(ids)]
         IN  IF x \in Range(front) THEN front ELSE Append(front, x)

\* ids.count(id)
Count(ids, id) == Cardinality({k \in 1..Len(ids) : ids[k] = id})

\* model._default_manager.filter(pk__in=ids): the records of the model whose
\* primary key is among ids, each once.
filter_pk_in(model, ids) ==
    LET found == {o \in Objects : o.content_type = model /\ o.pk \in Range(ids)}
        rows == RowsByPk(found)
    IN  [k \in 1..Len(rows) |-> rows[k].pk]

\* An object kept as soon as one of its ids was yielded.
keeps_any(ids, id, tag_len) == Count(ids, id) >= 1

\* The number of ids an object needs to be kept by match_all: the number of
\* tags.
keeps_all(ids, id, tag_len) == Count(ids, id) = tag_len

\* TaggedItem.objects.match_any(model, tags, user_filter_function)
match_any(model, tags, user_filter_function) ==
    LET got == _get_matching_ids(model, tags,
                                 filter_function(model, user_filter_function))
    IN  IF got.error # "none" THEN [error |-> got.error, result |-> <<>>]
        ELSE [error |-> "none",
              result |-> filter_pk_in(model, unique_from_iter(got.ids))]

\* TaggedItem.objects.match_all(model, tags, user_filter_function)
match_all(model, tags, user_filter_function) ==
    LET got == _get_matching_ids(model, tags,
                                 filter_function(model, user_filter_function))
        tag_len == Cardinality(tags)
        match_all_ids == SelectSeq(unique_from_iter(got.ids),
                                   LAMBDA id : keeps_all(got.ids, id, tag_len))
    IN  IF got.error # "none" THEN [error |-> got.error, result |-> <<>>]
        ELSE IF Len(match_all_ids) = 0 THEN [error |-> "none", result |-> <<>>]
        ELSE [error |-> "none", result |-> filter_pk_in(model, match_all_ids)]

\* ------------------------------------------------------------------------
\* The state machine
\* ------------------------------------------------------------------------

\* No association: the value of t_item before get_or_create returned.
NoItem ==
    [pk |-> 0, tag |-> 0, content_type |-> "parrot", object_id |-> 0,
     owners |-> {}, popular |-> FALSE]

\* An owner with no call in progress.  pc names the statement the call is
\* at; obj, names, current_names, removal, removal_pks, items, tag_pk,
\* t_item are the locals of update_tags / add_tag; added holds the names the
\* last call applied for the owner and error the exception it raised.
IdleProc ==
    [pc |-> "idle", obj |-> [content_type |-> "parrot", pk |-> 1],
     names |-> <<>>, current_names |-> {}, removal |-> <<>>, removal_pks |-> {},
     items |-> <<>>, tag_pk |-> 0, t_item |-> NoItem,
     added |-> {}, error |-> "none"]

\* No call of parse_tag_input has returned.
NotParsed == [done |-> FALSE, names |-> <<>>]

NoCall ==
    [op |-> "none", obj |-> [content_type |-> "parrot", pk |-> 1],
     input |-> None, owner |-> "u1", error |-> "none"]

Init ==
    /\ Tag = {}
    /\ TaggedItem = {}
    /\ FORCE_LOWERCASE_TAGS \in BOOLEAN
    /\ last = NoCall
    /\ calls = 0
    /\ parse_input = None
    /\ parse_result = NotParsed
    /\ run = [o \in Owners |-> IdleProc]
    /\ orphans = {}

\* A call of Tag.objects.update_tags(obj, tag_names, owner).
UpdateTags(obj, tag_names, owner) ==
    /\ calls < MaxCalls
    /\ \E order \in Orderings(items_for_removal(DB, obj, tag_names, owner)) :
          LET db == update_tags(DB, obj, tag_names, owner, order)
          IN  /\ Tag' = db.tags
              /\ TaggedItem' = db.items
              /\ last' = [op |-> "update_tags", obj |-> obj, input |-> tag_names,
                          owner |-> owner, error |-> db.error]
    /\ calls' = calls + 1
    /\ UNCHANGED <<FORCE_LOWERCASE_TAGS, parser_vars, process_vars>>

\* A call of Tag.objects.add_tag(obj, tag_name, owner).
AddTag(obj, tag_name, owner) ==
    /\ calls < MaxCalls
    /\ LET db == add_tag(DB, obj, tag_name, owner)
       IN  /\ Tag' = db.tags
           /\ TaggedItem' = db.items
           /\ last' = [op |-> "add_tag", obj |-> obj, input |-> tag_name,
                       owner |-> owner, error |-> db.error]
    /\ calls' = calls + 1
    /\ UNCHANGED <<FORCE_LOWERCASE_TAGS, parser_vars, process_vars>>

Next ==
    \/ \E obj \in Objects, s \in UpdateInputs, o \in Owners : UpdateTags(obj, s, o)
    \/ \E obj \in Objects, s \in AddInputs, o \in Owners : AddTag(obj, s, o)

Spec == Init /\ [][Next]_vars

\* ------------------------------------------------------------------------
\* Vocabulary of the properties
\* ------------------------------------------------------------------------

\* The associations stored for an object.
items_of(obj) ==
    {i \in TaggedItem : i.content_type = obj.content_type /\ i.object_id = obj.pk}

\* Owner o is among the owners of the association of the tag named name
\* with obj.
applies(o, name, obj) ==
    \E t \in Tag, i \in items_of(obj) : t.name = name /\ i.tag = t.pk /\ o \in i.owners

\* The names update_tags / add_tag are asked to store for an input.
asked_names(input) ==
    {IF FORCE_LOWERCASE_TAGS THEN Lower(n) ELSE n : n \in Range(parse_tag_input(input))}

Parrot1 == [content_type |-> "parrot", pk |-> 1]
Parrot2 == [content_type |-> "parrot", pk |-> 2]
Link1 == [content_type |-> "link", pk |-> 1]

\* ------------------------------------------------------------------------
\* Properties
\* ------------------------------------------------------------------------

\* C1: after update_tags(obj, s, o) returns, the names of the tags that o
\* owns on obj are exactly the names parsed from s (lower-cased when
\* FORCE_LOWERCASE_TAGS is on), and the call raised nothing; with s = None
\* the owner is left with no tag on obj.
UpdateTagsSetsOwnerTags ==
    last.op = "update_tags" =>
        /\ last.error = "none"
        /\ {t.name : t \in get_for_object_owner(last.obj, last.owner)}
               = asked_names(last.input)

\* The second call was update_tags(obj, None, o) and it removed every
\* association the first call had stored, so the first call was o's on obj.
UpdateTagsClearedOwner ==
    /\ last.op = "update_tags"
    /\ last.input = None
    /\ calls = 2
    /\ Tag # {}
    /\ TaggedItem = {}

\* C2: a call of update_tags / add_tag for owner o on obj leaves every
\* other owner's membership in every association, and o's membership in
\* the associations of every other object, as they were.
OnlyCallersTagsChange ==
    [][\A o2 \in Owners, obj2 \in Objects,
          n \in {t.name : t \in Tag} \cup {t.name : t \in Tag'} :
            (o2 # last'.owner \/ obj2 # last'.obj)
                => (applies(o2, n, obj2)' <=> applies(o2, n, obj2))]_vars

\* An owner cleared their tags on an object, an association was deleted by
\* it, and the tags of another owner are still returned by get_for_object.
ClearedBesideOtherOwner ==
    /\ last.op = "update_tags"
    /\ last.input = None
    /\ get_for_object(last.obj) # {}
    /\ \E t \in Tag : \A i \in TaggedItem : i.tag # t.pk

\* C3: for every tagged object, an association is popular iff its owner
\* count strictly exceeds the average owner count of the object's
\* associations, the average raised to MIN_OWNERS_COUNT_PER_TAG when below.
PopularIffAboveAverage ==
    \A obj \in Objects :
        LET rows == items_of(obj)
            n == Cardinality(rows)
            total == CountOwners(rows)
        IN  \A i \in rows :
                i.popular <=> (/\ Cardinality(i.owners) * n > total
                               /\ Cardinality(i.owners) > MIN_OWNERS_COUNT_PER_TAG)

\* The objects of a model that have, for the tag, an association of the
\* model's content type that passes the predicate.
has_tag(model, pk, tag, predicate) ==
    \E i \in TaggedItem : /\ i.tag = tag.pk
                          /\ i.content_type = model
                          /\ i.object_id = pk
                          /\ CallPredicate(predicate, i)

\* C4: match_all returns exactly the objects of the model that have, for
\* every tag of T, an association of the model's content type passing the
\* predicate; the result is empty for an empty T, and nothing is raised.
MatchAllExact ==
    \A model \in ContentTypes, T \in SUBSET Tag, predicate \in {"absent", "popular"} :
        LET m == match_all(model, T, predicate)
        IN  /\ m.error = "none"
            /\ Range(m.result) =
                   IF T = {} THEN {}
                   ELSE {o.pk : o \in {x \in Objects :
                            /\ x.content_type = model
                            /\ \A t \in T : has_tag(model, x.pk, t, predicate)}}

\* Two tags are asked for; one parrot has both and is returned, another
\* parrot has only one of them and is not.
MatchAllSelects ==
    \E T \in SUBSET Tag :
        /\ Cardinality(T) = 2
        /\ \E p, q \in {Parrot1, Parrot2} :
              /\ match_all("parrot", T, "absent").result = <<p.pk>>
              /\ q # p
              /\ get_for_object(q) \cap T # {}

\* C5: match_any returns exactly the objects of the model with at least
\* one association whose tag is in T, whose content type is the model's
\* and which passes the predicate, each once; nothing is raised.
MatchAnyExact ==
    \A model \in ContentTypes, T \in SUBSET Tag, predicate \in {"absent", "popular"} :
        LET m == match_any(model, T, predicate)
        IN  /\ m.error = "none"
            /\ Range(m.result) =
                   {o.pk : o \in {x \in Objects :
                       /\ x.content_type = model
                       /\ \E t \in T : has_tag(model, x.pk, t, predicate)}}
            /\ \A j, k \in 1..Len(m.result) : j # k => m.result[j] # m.result[k]

\* A tag is on parrot 2 and on link 1 but not on parrot 1: match_any over
\* the parrots returns parrot 2 only.
MatchAnySkipsOtherType ==
    \E t \in Tag :
        /\ t \in get_for_object(Link1)
        /\ t \notin get_for_object(Parrot1)
        /\ match_any("parrot", {t}, "absent").result = <<2>>

\* C6: an owner is in a tag's owner set iff the owner is among the owners
\* of at least one association of that tag.
TagOwnersAreAssociationOwners ==
    \A t \in Tag, o \in Owners :
        o \in t.owners <=> \E i \in TaggedItem : i.tag = t.pk /\ o \in i.owners

\* C7: every stored association has at least one owner, and there is at
\* most one association per (tag, content type, object id).
AssociationsOwnedAndUnique ==
    /\ \A i \in TaggedItem : i.owners # {}
    /\ \A i, j \in TaggedItem :
          (i.tag = j.tag /\ i.content_type = j.content_type
             /\ i.object_id = j.object_id) => i = j

\* Two owners share one association, and the association of another tag
\* was deleted when it lost its last owner.
SharedAndDeleted ==
    /\ \E i \in TaggedItem : Cardinality(i.owners) = 2
    /\ \E t \in Tag : \A i \in TaggedItem : i.tag # t.pk

\* C8: no stored tag has an empty owner set.
NoTagWithoutOwners == \A t \in Tag : t.owners # {}

\* C9: add_tag raises 'No tags were given' when the input parses to no
\* name and 'Multiple tags were given' when it parses to more than one, and
\* in both cases leaves the tags, the associations, their owners and the
\* popular flags as they were.
AddTagErrorsChangeNothing ==
    [][last'.op = "add_tag" =>
          LET n == Len(parse_tag_input(last'.input))
          IN  /\ n = 0 => (last'.error = "No tags were given"
                           /\ UNCHANGED <<Tag, TaggedItem>>)
              /\ n > 1 => (last'.error = "Multiple tags were given"
                           /\ UNCHANGED <<Tag, TaggedItem>>)
              /\ n = 1 => last'.error = "none"]_vars

\* add_tag refused an input of two names while associations were stored.
AddTagRefusedMultiple ==
    /\ last.op = "add_tag"
    /\ last.error = "Multiple tags were given"
    /\ TaggedItem # {}

\* C10: match_any and match_all raise whenever the predicate is not
\* callable, for every set of tags, and never raise otherwise.
MatchRaisesIffNotCallable ==
    \A model \in ContentTypes, T \in SUBSET Tag, predicate \in Predicates :
        /\ match_any(model, T, predicate).error # "none" <=> ~Callable(predicate)
        /\ match_all(model, T, predicate).error # "none" <=> ~Callable(predicate)

\* ------------------------------------------------------------------------
\* Popularity recomputation called on its own
\* ------------------------------------------------------------------------

\* A call of TaggedItem.refresh_popular(content_type, object_id) for a
\* record of the universe.
RefreshPopular(obj) ==
    /\ calls < MaxCalls
    /\ LET db == refresh_popular(DB, obj.content_type, obj.pk)
       IN  /\ Tag' = db.tags
           /\ TaggedItem' = db.items
           /\ last' = [op |-> "refresh_popular", obj |-> obj, input |-> None,
                       owner |-> NoCall.owner, error |-> db.error]
    /\ calls' = calls + 1
    /\ UNCHANGED <<FORCE_LOWERCASE_TAGS, parser_vars, process_vars>>

NextRefresh ==
    \/ Next
    \/ \E obj \in Objects : RefreshPopular(obj)

SpecRefresh == Init /\ [][NextRefresh]_vars

\* C11: refresh_popular for an object with no association stored raises
\* nothing and changes no popular flag.
RefreshOfUntaggedIsNoOp ==
    [][(last'.op = "refresh_popular"
          /\ \A i \in TaggedItem : ~(i.content_type = last'.obj.content_type
                                     /\ i.object_id = last'.obj.pk))
        => (last'.error = "none" /\ UNCHANGED <<Tag, TaggedItem>>)]_vars

\* ------------------------------------------------------------------------
\* add_tag as an upsert
\* ------------------------------------------------------------------------

\* The tables a call leaves, as the next call finds them.
returned(db) == [db EXCEPT !.error = "none"]

\* Calling add_tag a second time with the same single name, object and
\* owner leaves the tables as the first call left them.
AddTagTwiceIsOnce ==
    \A obj \in Objects, s \in AddInputs, o \in Owners :
        LET once == add_tag(DB, obj, s, o)
            twice == add_tag(returned(once), obj, s, o)
        IN  once.error = "none" =>
                (twice.tags = once.tags /\ twice.items = once.items)

\* Calling add_tag when the owner already applies the tag to the object
\* leaves the tables as they are.
AddTagOfAppliedChangesNothing ==
    \A obj \in Objects, s \in AddInputs, o \in Owners :
        LET db == add_tag(DB, obj, s, o)
        IN  (Len(parse_tag_input(s)) = 1
               /\ \A n \in asked_names(s) : applies(o, n, obj))
            => (db.tags = Tag /\ db.items = TaggedItem)

\* C12: add_tag is an idempotent upsert: calling it twice with the same
\* single name, object and owner leaves the same tags, associations, owner
\* sets and popular flags as calling it once, and calling it when the owner
\* already applies the tag to the object changes nothing.
AddTagIdempotent == AddTagTwiceIsOnce /\ AddTagOfAppliedChangesNothing

\* ------------------------------------------------------------------------
\* parse_tag_input called on its own
\* ------------------------------------------------------------------------

\* Longest text handed to parse_tag_input.
MaxLen == 5

\* The characters of the texts: letters, the space, the comma, the quote.
Alphabet == {"a", "b", " ", ",", "\""}

\* None and every text of at most MaxLen characters.
ParseInputs ==
    {None} \cup {Text(s) : s \in UNION {[1..n -> Alphabet] : n \in 0..MaxLen}}

InitParse ==
    /\ Tag = {}
    /\ TaggedItem = {}
    /\ FORCE_LOWERCASE_TAGS = FALSE
    /\ last = NoCall
    /\ calls = 0
    /\ parse_input \in ParseInputs
    /\ parse_result = NotParsed
    /\ run = [o \in Owners |-> IdleProc]
    /\ orphans = {}

\* The call parse_tag_input(parse_input) returns.
Parse ==
    /\ ~parse_result.done
    /\ parse_result' = [done |-> TRUE, names |-> parse_tag_input(parse_input)]
    /\ UNCHANGED <<Tag, TaggedItem, FORCE_LOWERCASE_TAGS, last, calls, parse_input,
                   process_vars>>

NextParse == Parse

SpecParse == InitParse /\ [][NextParse]_vars

\* The names are in strictly ascending order (so no name is there twice) and
\* none is empty.
SortedDistinctNonEmpty(names) ==
    /\ \A j, k \in 1..Len(names) : j < k => LexLess(names[j], names[k])
    /\ \A k \in 1..Len(names) : Len(names[k]) > 0

\* The input is None or holds nothing but spaces, commas and quotes.
OnlySeparators(input) ==
    input.none \/ Range(input.text) \subseteq {" ", ",", "\""}

\* A comma stands inside a closed pair of quotes: between an opening quote
\* (one with an even number of quotes before it) and the next quote.
HasQuotedComma(input) ==
    LET s == input.text
        quotes_before(i) == Cardinality({k \in 1..(i - 1) : s[k] = "\""})
    IN  \E i, j \in 1..Len(s) :
            /\ i < j
            /\ s[i] = "\"" /\ s[j] = "\""
            /\ quotes_before(i) % 2 = 0
            /\ \A k \in (i + 1)..(j - 1) : s[k] # "\""
            /\ \E k \in (i + 1)..(j - 1) : s[k] = ","

\* C13 as claimed: the result is sorted, distinct and free of empty names,
\* and None, the empty text and every text of spaces, commas and quotes
\* only yield the empty sequence.
ParseSortedAndSeparatorsEmpty ==
    parse_result.done =>
        /\ SortedDistinctNonEmpty(parse_result.names)
        /\ OnlySeparators(parse_input) => parse_result.names = <<>>

\* C13, amended: the result is sorted, distinct and free of empty names, and
\* None, the empty text and every text of spaces, commas and quotes only
\* yield the empty sequence, unless a comma stands inside a closed pair of
\* quotes, in which case the result is not empty.
ParseSortedAndLooseSeparatorsEmpty ==
    parse_result.done =>
        /\ SortedDistinctNonEmpty(parse_result.names)
        /\ OnlySeparators(parse_input) =>
               (parse_result.names = <<>> <=> ~HasQuotedComma(parse_input))

\* A text with a quoted name and a loose one was parsed into two names given
\* out of order.
ParsedQuotedAndLoose ==
    /\ parse_result.done
    /\ ~parse_input.none
    /\ parse_input.text = <<"b", " ", "\"", "a", "\"">>
    /\ parse_result.names = << <<"a">>, <<"b">> >>

\* ------------------------------------------------------------------------
\* update_tags and add_tag run statement by statement
\* ------------------------------------------------------------------------
\* Each owner runs at most one call at a time; the calls of the two owners
\* interleave between database statements.  A statement is one action; the
\* statements that touch no table (parsing, the list comprehensions, the
\* test "tag_name not in current_tag_names") run with the database statement
\* before them.  No transaction wraps a call: the code opens none.

\* The objects the interleaved calls tag: one, so that the calls meet.
SharedObjects == {[content_type |-> "parrot", pk |-> 1]}

\* The owners stored in the owners relation for an association that is not
\* itself stored.
orphan_owners(pk) == {r[2] : r \in {x \in orphans : x[1] = pk}}

\* The owners relation without the rows of one association.
orphans_without(pk) == {x \in orphans : x[1] # pk}

\* The INSERT that Model.save issues when no row has the instance's primary
\* key: the rows of the owners relation that name the key belong to the new
\* row.
insert_if_missing(db, item) ==
    IF \E i \in db.items : i.pk = item.pk THEN db
    ELSE [db EXCEPT !.items = @ \cup {[item EXCEPT !.owners = orphan_owners(item.pk)]}]

RECURSIVE skip_current(_, _)
\* for tag_name in updated_tag_names: if tag_name not in current_tag_names
skip_current(names, current_names) ==
    IF Len(names) = 0 THEN names
    ELSE IF Head(names) \in current_names THEN skip_current(Tail(names), current_names)
    ELSE names

\* The call has returned: its locals are gone, what it added is kept.
call_returned(p) == [IdleProc EXCEPT !.obj = p.obj, !.added = p.added]

\* The call has raised.
call_raised(p, error) == [IdleProc EXCEPT !.obj = p.obj, !.error = error]

\* Control reaches the loop "Add new tags".
to_add_loop(p) ==
    LET rest == skip_current(p.names, p.current_names)
    IN  IF Len(rest) = 0 THEN call_returned(p)
        ELSE [p EXCEPT !.names = rest, !.pc = "tag"]

\* Control reaches the next pass of "for tag in tags_for_removal", or leaves
\* the loop for "for item in items".
to_next_tag(p) ==
    LET rest == Tail(p.removal)
    IN  [p EXCEPT !.removal = rest, !.pc = IF Len(rest) = 0 THEN "items" ELSE "count"]

\* Control reaches the next pass of "for item in items", or leaves the loop.
to_next_item(p) ==
    LET rest == Tail(p.items)
    IN  IF Len(rest) = 0 THEN to_add_loop([p EXCEPT !.items = rest])
        ELSE [p EXCEPT !.items = rest, !.pc = "remove"]

\* current_tags = list(self.filter(...)) and the lists computed from it.
BeginUpdateTags(o, obj, tag_names) ==
    /\ calls < MaxCalls
    /\ run[o].pc = "idle"
    /\ LET removal == TagsByName(tags_for_removal(DB, obj, tag_names, o))
           p == [IdleProc EXCEPT
                    !.obj = obj,
                    !.names = updated_names(tag_names),
                    !.current_names = {t.name : t \in current_tags(DB, obj, o)},
                    !.removal = removal,
                    !.removal_pks = {removal[k].pk : k \in 1..Len(removal)}]
       IN  run' = [run EXCEPT ![o] = IF Len(removal) > 0
                                     THEN [p EXCEPT !.pc = "count"]
                                     ELSE to_add_loop(p)]
    /\ calls' = calls + 1
    /\ UNCHANGED <<Tag, TaggedItem, FORCE_LOWERCASE_TAGS, last, parser_vars, orphans>>

\* add_tag up to its first database statement: the input is parsed and the
\* call raises unless it holds exactly one name.
BeginAddTag(o, obj, tag_name) ==
    /\ calls < MaxCalls
    /\ run[o].pc = "idle"
    /\ LET tag_names == parse_tag_input(tag_name)
           p == [IdleProc EXCEPT !.obj = obj]
       IN  run' = [run EXCEPT ![o] =
                IF Len(tag_names) = 0 THEN call_raised(p, "No tags were given")
                ELSE IF Len(tag_names) > 1 THEN call_raised(p, "Multiple tags were given")
                ELSE [p EXCEPT !.pc = "tag",
                               !.names = <<IF FORCE_LOWERCASE_TAGS
                                           THEN Lower(tag_names[1])
                                           ELSE tag_names[1]>>]]
    /\ calls' = calls + 1
    /\ UNCHANGED <<Tag, TaggedItem, FORCE_LOWERCASE_TAGS, last, parser_vars, orphans>>

\* if TaggedItem._default_manager.filter(owners=owner, ...).count() <= 1
CountTagUses(o) ==
    /\ run[o].pc = "count"
    /\ LET p == run[o]
       IN  run' = [run EXCEPT ![o] =
                IF owner_leaves_tag(DB, p.obj.content_type, Head(p.removal), o)
                THEN [p EXCEPT !.pc = "untag"]
                ELSE to_next_tag(p)]
    /\ UNCHANGED <<Tag, TaggedItem, FORCE_LOWERCASE_TAGS, last, calls, parser_vars, orphans>>

\* tag.owners.remove(owner); tag.save()
RemoveTagOwner(o) ==
    /\ run[o].pc = "untag"
    /\ Tag' = tag_owners_remove(DB, Head(run[o].removal).pk, o).tags
    /\ run' = [run EXCEPT ![o] = to_next_tag(run[o])]
    /\ UNCHANGED <<TaggedItem, FORCE_LOWERCASE_TAGS, last, calls, parser_vars, orphans>>

\* for item in items: the queryset is evaluated here, in any order.
QueryItems(o) ==
    /\ run[o].pc = "items"
    /\ LET p == run[o]
           rows == {i \in TaggedItem : /\ i.content_type = p.obj.content_type
                                       /\ i.object_id = p.obj.pk
                                       /\ i.tag \in p.removal_pks}
       IN  \E order \in Orderings(rows) :
               run' = [run EXCEPT ![o] =
                   IF rows = {} THEN to_add_loop(p)
                   ELSE [p EXCEPT !.items = order, !.pc = "remove"]]
    /\ UNCHANGED <<Tag, TaggedItem, FORCE_LOWERCASE_TAGS, last, calls, parser_vars, orphans>>

\* item.owners.remove(owner)
RemoveItemOwner(o) ==
    /\ run[o].pc = "remove"
    /\ LET pk == Head(run[o].items).pk
       IN  /\ TaggedItem' = item_owners_remove(DB, pk, o).items
           /\ orphans' = orphans \ {<<pk, o>>}
    /\ run' = [run EXCEPT ![o].pc = "recount"]
    /\ UNCHANGED <<Tag, FORCE_LOWERCASE_TAGS, last, calls, parser_vars>>

\* if item.owners.all().count(): the rows of the owners relation that name
\* the association.
CountItemOwners(o) ==
    /\ run[o].pc = "recount"
    /\ LET pk == Head(run[o].items).pk
           owners == UNION {i.owners : i \in {j \in TaggedItem : j.pk = pk}}
                         \cup orphan_owners(pk)
       IN  run' = [run EXCEPT ![o].pc = IF Cardinality(owners) > 0
                                        THEN "save" ELSE "delete"]
    /\ UNCHANGED <<Tag, TaggedItem, FORCE_LOWERCASE_TAGS, last, calls, parser_vars, orphans>>

\* item.save()
SaveItem(o) ==
    /\ run[o].pc = "save"
    /\ LET item == Head(run[o].items)
           db == TaggedItem_save(insert_if_missing(DB, item), item)
       IN  /\ Tag' = db.tags /\ TaggedItem' = db.items
           /\ orphans' = orphans_without(item.pk)
    /\ run' = [run EXCEPT ![o] = to_next_item(run[o])]
    /\ UNCHANGED <<FORCE_LOWERCASE_TAGS, last, calls, parser_vars>>

\* item.delete(): the row and the rows of the owners relation that name it.
DeleteItem(o) ==
    /\ run[o].pc = "delete"
    /\ LET pk == Head(run[o].items).pk
       IN  /\ TaggedItem' = item_delete(DB, pk).items
           /\ orphans' = orphans_without(pk)
    /\ run' = [run EXCEPT ![o] = to_next_item(run[o])]
    /\ UNCHANGED <<Tag, FORCE_LOWERCASE_TAGS, last, calls, parser_vars>>

\* tag, created = self.get_or_create(name=tag_name); if owner not in
\* tag.owners.all(): tag.owners.add(owner); tag.save()
GetOrCreateTag(o) ==
    /\ run[o].pc = "tag"
    /\ LET tc == tag_get_or_create(DB, Head(run[o].names))
       IN  /\ Tag' = (IF o \in tc.tag.owners THEN tc.db
                      ELSE tag_owners_add(tc.db, tc.tag.pk, o)).tags
           /\ run' = [run EXCEPT ![o].tag_pk = tc.tag.pk, ![o].pc = "item"]
    /\ UNCHANGED <<TaggedItem, FORCE_LOWERCASE_TAGS, last, calls, parser_vars, orphans>>

\* t_item, created = TaggedItem._default_manager.get_or_create(tag=tag,
\*     object_id=obj.pk, content_type=ctype)
GetOrCreateItem(o) ==
    /\ run[o].pc = "item"
    /\ LET p == run[o]
           got == item_get_or_create(DB, p.tag_pk, p.obj.content_type, p.obj.pk)
           created == \A i \in TaggedItem : i.pk # got.item.pk
           db == IF created
                 THEN TaggedItem_save(insert_if_missing(DB, got.item), got.item)
                 ELSE got.db
       IN  /\ Tag' = db.tags /\ TaggedItem' = db.items
           /\ orphans' = IF created THEN orphans_without(got.item.pk) ELSE orphans
           /\ run' = [run EXCEPT ![o].t_item = got.item, ![o].pc = "own"]
    /\ UNCHANGED <<FORCE_LOWERCASE_TAGS, last, calls, parser_vars>>

\* t_item.owners.add(owner).  When the association row has been deleted
\* since get_or_create returned, a database that enforces the foreign key
\* refuses the row of the owners relation and the call raises; one that does
\* not (SQLite, MyISAM) stores it.
AddItemOwner(o) ==
    /\ run[o].pc = "own"
    /\ LET pk == run[o].t_item.pk
       IN  IF \E i \in TaggedItem : i.pk = pk
           THEN /\ TaggedItem' = item_owners_add(DB, pk, o).items
                /\ run' = [run EXCEPT ![o].pc = "save_new"]
                /\ UNCHANGED orphans
           ELSE \/ /\ run' = [run EXCEPT ![o] = call_raised(run[o], "IntegrityError")]
                   /\ UNCHANGED <<TaggedItem, orphans>>
                \/ /\ orphans' = orphans \cup {<<pk, o>>}
                   /\ run' = [run EXCEPT ![o].pc = "save_new"]
                   /\ UNCHANGED TaggedItem
    /\ UNCHANGED <<Tag, FORCE_LOWERCASE_TAGS, last, calls, parser_vars>>

\* t_item.save(), and the test at the head of the next pass of the loop.
SaveNewItem(o) ==
    /\ run[o].pc = "save_new"
    /\ LET p == run[o]
           db == TaggedItem_save(insert_if_missing(DB, p.t_item), p.t_item)
       IN  /\ Tag' = db.tags /\ TaggedItem' = db.items
           /\ orphans' = orphans_without(p.t_item.pk)
           /\ run' = [run EXCEPT ![o] =
                  to_add_loop([p EXCEPT !.added = @ \cup {Head(p.names)},
                                        !.names = Tail(p.names),
                                        !.tag_pk = 0, !.t_item = NoItem])]
    /\ UNCHANGED <<FORCE_LOWERCASE_TAGS, last, calls, parser_vars>>

\* One statement of one owner's call.
NextConcurrent ==
    \E o \in Owners :
        \/ \E obj \in SharedObjects, tag_names \in UpdateInputs :
               BeginUpdateTags(o, obj, tag_names)
        \/ \E obj \in SharedObjects, tag_name \in AddInputs :
               BeginAddTag(o, obj, tag_name)
        \/ CountTagUses(o)
        \/ RemoveTagOwner(o)
        \/ QueryItems(o)
        \/ RemoveItemOwner(o)
        \/ CountItemOwners(o)
        \/ SaveItem(o)
        \/ DeleteItem(o)
        \/ GetOrCreateTag(o)
        \/ GetOrCreateItem(o)
        \/ AddItemOwner(o)
        \/ SaveNewItem(o)

SpecConcurrent == Init /\ [][NextConcurrent]_vars

\* No call is in progress.
Quiescent == \A o \in Owners : run[o].pc = "idle"

\* C14: when the calls of the owners on one object interleave statement by
\* statement, then once every call has returned, every owner whose last
\* call added a name to the object still applies that name to it, and no
\* stored association is without owners (none was deleted, or written back
\* bare, after another owner was added to it).
NoTaggingLostWhenInterleaved ==
    Quiescent =>
        /\ \A o \in Owners : \A name \in run[o].added : applies(o, name, run[o].obj)
        /\ \A i \in TaggedItem : i.owners # {}

====
